---- MODULE Spec2Model ----
(***************************************************************************)
(* A model of the extraction and normalisation engine of                   *)
(* linkedin_creator_content_scraper.py: the numeric token normaliser       *)
(* (_to_number), the candidate extractor and labelled-metric locator       *)
(* (parse_analytics_metrics with its inner candidates_from_window), the    *)
(* all-numbers extractor (extract_numbers_only), the two per-post parsers  *)
(* (parse_posts_blocks, parse_posts_from_analytics_html), the series       *)
(* cleaner (compute_and_return) with its trend fitter (trend_and_plot),    *)
(* the hashtag extractor (extract_hashtags_from_html) and the steps of     *)
(* main.                                                                   *)
(*                                                                         *)
(* Text is a sequence of one-character strings.  A float is an exact       *)
(* decimal: sign, digit sequence and power of ten, so that no value        *)
(* overflows; IEEE rounding of the product float(s) * multiplier is not    *)
(* modelled.                                                               *)
(***************************************************************************)
EXTENDS Integers, Sequences, FiniteSets, TLC

VARIABLES pc, fn, arg, ret

vars == <<pc, fn, arg, ret>>

(***************************************************************************)
(* Characters                                                              *)
(***************************************************************************)
NNBSP == "nnbsp"      \* U+202F, narrow no-break space
BULLET == "bullet"    \* U+2022
ELLIPSIS == "ellipsis" \* U+2026
NL == "nl"            \* the line feed

DigitChars == <<"0", "1", "2", "3", "4", "5", "6", "7", "8", "9">>

UpperChars == <<"A", "B", "C", "D", "E", "F", "G", "H", "I", "J", "K", "L", "M",
                "N", "O", "P", "Q", "R", "S", "T", "U", "V", "W", "X", "Y", "Z">>

LowerChars == <<"a", "b", "c", "d", "e", "f", "g", "h", "i", "j", "k", "l", "m",
                "n", "o", "p", "q", "r", "s", "t", "u", "v", "w", "x", "y", "z">>

Digits == {DigitChars[i] : i \in 1..10}

Uppers == {UpperChars[i] : i \in 1..26}

Lowers == {LowerChars[i] : i \in 1..26}

\* str.isspace(), the class \s of a str pattern: both hold of U+202F
Whitespace == {" ", NNBSP, NL}

\* the class \w of a str pattern
WordChars == Digits \cup Uppers \cup Lowers \cup {"_"}

DigitVal == [c \in Digits |-> (CHOOSE i \in 1..10 : DigitChars[i] = c) - 1]

LowerOf == [c \in Uppers |-> LowerChars[CHOOSE i \in 1..26 : UpperChars[i] = c]]

\* str.lower()
Lower(s) == [i \in 1..Len(s) |-> IF s[i] \in Uppers THEN LowerOf[s[i]] ELSE s[i]]

\* str.replace(c, '') for every c of cs
Remove(s, cs) == SelectSeq(s, LAMBDA c : c \notin cs)

\* str.replace(a, b) for single characters
Replace(s, a, b) == [i \in 1..Len(s) |-> IF s[i] = a THEN b ELSE s[i]]

\* str.count(c)
Count(s, c) == Cardinality({i \in 1..Len(s) : s[i] = c})

\* str.strip()
Strip(s) ==
  LET keep == {i \in 1..Len(s) : s[i] \notin Whitespace}
  IN  IF keep = {} THEN <<>>
      ELSE SubSeq(s, CHOOSE i \in keep : \A j \in keep : i <= j,
                     CHOOSE i \in keep : \A j \in keep : j <= i)

\* str.endswith(c)
EndsWith(s, c) == Len(s) > 0 /\ s[Len(s)] = c

RECURSIVE Flat(_)
\* the concatenation of a sequence of texts
Flat(ss) == IF ss = <<>> THEN <<>> ELSE Head(ss) \o Flat(Tail(ss))

\* the end of the longest run of characters of cs that starts at i (i-1: none)
RECURSIVE RunEnd(_, _, _)
RunEnd(s, i, cs) ==
  IF i <= Len(s) /\ s[i] \in cs THEN RunEnd(s, i + 1, cs) ELSE i - 1

(***************************************************************************)
(* Floats as exact decimals: k is "fin", "inf" or "nan"; a finite value is *)
(* (-1)^neg * ds * 10^e with ds a digit sequence without leading or        *)
(* trailing zeros, the empty sequence for zero.                            *)
(***************************************************************************)
Zero == [k |-> "fin", neg |-> FALSE, ds |-> <<>>, e |-> 0]

RECURSIVE StripLead(_)
StripLead(ds) == IF ds # <<>> /\ Head(ds) = 0 THEN StripLead(Tail(ds)) ELSE ds

RECURSIVE TrailZeros(_)
TrailZeros(ds) ==
  IF ds # <<>> /\ ds[Len(ds)] = 0 THEN 1 + TrailZeros(SubSeq(ds, 1, Len(ds) - 1)) ELSE 0

\* -0.0 compares equal to 0.0 and is as falsy: both are Zero
MkNum(neg, ds, e) ==
  LET a == StripLead(ds)
      z == TrailZeros(a)
  IN  IF a = <<>> THEN Zero
      ELSE [k |-> "fin", neg |-> neg, ds |-> SubSeq(a, 1, Len(a) - z), e |-> e + z]

Inf(neg) == [k |-> "inf", neg |-> neg, ds |-> <<>>, e |-> 0]

NaN == [k |-> "nan", neg |-> FALSE, ds |-> <<>>, e |-> 0]

RECURSIVE NatDigits(_)
NatDigits(n) == IF n = 0 THEN <<>> ELSE Append(NatDigits(n \div 10), n % 10)

\* the float of a natural number
NumOf(n) == MkNum(FALSE, NatDigits(n), 0)

\* x * 10^p
Scale(x, p) == IF x.k = "fin" /\ x.ds # <<>> THEN [x EXCEPT !.e = @ + p] ELSE x

RECURSIVE LexLess(_, _)
\* digit sequences without trailing zeros, read as fractions 0.d1d2...
LexLess(a, b) ==
  IF b = <<>> THEN FALSE
  ELSE IF a = <<>> THEN TRUE
  ELSE IF Head(a) # Head(b) THEN Head(a) < Head(b)
  ELSE LexLess(Tail(a), Tail(b))

\* |x| < |y| for finite x, y
MagLess(x, y) ==
  IF y.ds = <<>> THEN FALSE
  ELSE IF x.ds = <<>> THEN TRUE
  ELSE \/ Len(x.ds) + x.e < Len(y.ds) + y.e
       \/ /\ Len(x.ds) + x.e = Len(y.ds) + y.e
          /\ LexLess(x.ds, y.ds)

\* x < y; false when either is nan
NumLess(x, y) ==
  IF x.k = "nan" \/ y.k = "nan" THEN FALSE
  ELSE IF x.k = "inf" THEN x.neg /\ ~(y.k = "inf" /\ y.neg)
  ELSE IF y.k = "inf" THEN ~y.neg
  ELSE IF x.neg /\ ~y.neg THEN TRUE
  ELSE IF ~x.neg /\ y.neg THEN FALSE
  ELSE IF x.neg THEN MagLess(y, x)
  ELSE MagLess(x, y)

\* float.is_integer()
IsInteger(x) == x.k = "fin" /\ x.e >= 0

(***************************************************************************)
(* float(s): [sign] (digits [. digits] | . digits) [e [sign] digits], or   *)
(* inf, infinity, nan, between optional whitespace; the texts of the model *)
(* hold no underscore.                                                     *)
(***************************************************************************)
IsDigits(s) == \A i \in 1..Len(s) : s[i] \in Digits

DigitsOf(s) == [i \in 1..Len(s) |-> DigitVal[s[i]]]

RECURSIVE NatOf(_)
NatOf(ds) == IF ds = <<>> THEN 0 ELSE 10 * NatOf(SubSeq(ds, 1, Len(ds) - 1)) + ds[Len(ds)]

FirstIndex(s, c) ==
  IF \E i \in 1..Len(s) : s[i] = c
  THEN CHOOSE i \in 1..Len(s) : s[i] = c /\ \A j \in 1..(i - 1) : s[j] # c
  ELSE 0

HasSign(s) == Len(s) > 0 /\ s[1] \in {"+", "-"}

Unsigned(s) == IF HasSign(s) THEN Tail(s) ELSE s

\* the mantissa m and the exponent part x of an unsigned literal
FloatParts(u) ==
  LET ie == FirstIndex(Lower(u), "e")
      m  == IF ie = 0 THEN u ELSE SubSeq(u, 1, ie - 1)
      x  == IF ie = 0 THEN <<>> ELSE SubSeq(u, ie + 1, Len(u))
      ip == FirstIndex(m, ".")
  IN  [int  |-> IF ip = 0 THEN m ELSE SubSeq(m, 1, ip - 1),
       frac |-> IF ip = 0 THEN <<>> ELSE SubSeq(m, ip + 1, Len(m)),
       hasE |-> ie # 0,
       exp  |-> x]

IsFloatLiteral(s) ==
  LET u == Unsigned(Strip(s))
      p == FloatParts(u)
  IN  \/ Lower(u) \in {<<"i", "n", "f">>, <<"n", "a", "n">>,
                       <<"i", "n", "f", "i", "n", "i", "t", "y">>}
      \/ /\ IsDigits(p.int) /\ IsDigits(p.frac)
         /\ Len(p.int) + Len(p.frac) > 0
         /\ p.hasE => /\ Len(Unsigned(p.exp)) > 0
                      /\ IsDigits(Unsigned(p.exp))

FloatOf(s) ==
  LET u   == Unsigned(Strip(s))
      neg == HasSign(Strip(s)) /\ Strip(s)[1] = "-"
      p   == FloatParts(u)
      x   == IF p.hasE
             THEN (IF HasSign(p.exp) /\ p.exp[1] = "-" THEN -1 ELSE 1)
                    * NatOf(DigitsOf(Unsigned(p.exp)))
             ELSE 0
  IN  IF Lower(u) = <<"n", "a", "n">> THEN NaN
      ELSE IF Lower(u) \in {<<"i", "n", "f">>, <<"i", "n", "f", "i", "n", "i", "t", "y">>}
      THEN Inf(neg)
      ELSE MkNum(neg, DigitsOf(p.int \o p.frac), x - Len(p.frac))

(***************************************************************************)
(* _to_number                                                              *)
(***************************************************************************)
\* re.search(r"[0-9]+", s): the first digit run, <<>> when there is none
FirstDigitRun(s) ==
  LET at == {i \in 1..Len(s) : s[i] \in Digits}
  IN  IF at = {} THEN <<>>
      ELSE LET i == CHOOSE i \in at : \A j \in at : i <= j
           IN  SubSeq(s, i, RunEnd(s, i, Digits))

\* lines 200-202: strip, lower, drop U+202F, spaces and commas
CleanToken(value_str) ==
  Remove(Remove(Lower(Strip(value_str)), {NNBSP, " "}), {","})

\* the exponent of ten of the multiplier of a K/M/B suffix
SuffixPower(s) ==
  IF EndsWith(s, "k") THEN 3
  ELSE IF EndsWith(s, "m") THEN 6
  ELSE IF EndsWith(s, "b") THEN 9
  ELSE 0

\* s[:-1] when a suffix was found
Unsuffixed(s) == IF SuffixPower(s) # 0 THEN SubSeq(s, 1, Len(s) - 1) ELSE s

\* line 215, the locale decimal comma
LocaleDecimal(s) ==
  IF Count(s, ",") = 1 /\ Count(s, ".") = 0
  THEN Replace(Remove(s, {"."}), ",", ".")
  ELSE s

\* the mutant: every digit of the token, concatenated
FallbackAllDigits(s, p) ==
  LET m == SelectSeq(s, LAMBDA c : c \in Digits)
  IN  IF m = <<>> THEN Zero ELSE Scale(MkNum(FALSE, DigitsOf(m), 0), p)

\* the except branch: the first digit run times the multiplier, else 0.0
Fallback(s, p) ==
  LET m == FirstDigitRun(s)
  IN  IF m = <<>> THEN Zero ELSE Scale(MkNum(FALSE, DigitsOf(m), 0), p)

_to_number(value_str) ==
  LET c == CleanToken(value_str)
      p == SuffixPower(c)
      s == LocaleDecimal(Unsuffixed(c))
  IN  IF IsFloatLiteral(s) THEN Scale(FloatOf(s), p) ELSE Fallback(s, p)

(***************************************************************************)
(* Regular expressions.  A pattern is a set of alternatives, each a        *)
(* sequence of atoms: a lower-case character (matched case-insensitively), *)
(* "s?" (an optional s), "\\s*" or "\\s+".                                 *)
(***************************************************************************)
LowerChar(c) == IF c \in Uppers THEN LowerOf[c] ELSE c

RECURSIVE MatchesAt(_, _, _, _)
\* the atoms k.. of alternative p match s from position i on
MatchesAt(p, k, s, i) ==
  IF k > Len(p) THEN TRUE
  ELSE IF p[k] = "s?"
    THEN \/ i <= Len(s) /\ LowerChar(s[i]) = "s" /\ MatchesAt(p, k + 1, s, i + 1)
         \/ MatchesAt(p, k + 1, s, i)
  ELSE IF p[k] = "\\s*"
    THEN \/ MatchesAt(p, k + 1, s, i)
         \/ i <= Len(s) /\ s[i] \in Whitespace /\ MatchesAt(p, k, s, i + 1)
  ELSE IF p[k] = "\\s+"
    THEN /\ i <= Len(s) /\ s[i] \in Whitespace
         /\ \/ MatchesAt(p, k + 1, s, i + 1)
            \/ MatchesAt(p, k, s, i + 1)
  ELSE i <= Len(s) /\ LowerChar(s[i]) = p[k] /\ MatchesAt(p, k + 1, s, i + 1)

\* re.search(pattern, s) finds a match
Search(pattern, s) ==
  \E p \in pattern : \E i \in 1..(Len(s) + 1) : MatchesAt(p, 1, s, i)

\* [0-9\., ]
NumChars == Digits \cup {".", ",", NNBSP}

\* [kmbKMB]
SuffixChars == {"k", "m", "b", "K", "M", "B"}

\* the least element of a non-empty set of positions
Least(S) == CHOOSE i \in S : \A j \in S : i <= j

\* [0-9][0-9\., ]*\s*[kmbKMB]? matched at the digit s[i]: every quantifier
\* is greedy and nothing after them can fail; the position of the last character
NumberEnd(s, i) ==
  LET w == RunEnd(s, RunEnd(s, i + 1, NumChars) + 1, Whitespace)
  IN  IF w + 1 <= Len(s) /\ s[w + 1] \in SuffixChars THEN w + 1 ELSE w

\* the first match of the number pattern at or after pos: <<first, last>>, or <<>>
NumberSearch(s, pos) ==
  LET at == {i \in pos..Len(s) : s[i] \in Digits}
  IN  IF at = {} THEN <<>> ELSE <<Least(at), NumberEnd(s, Least(at))>>

RECURSIVE NumberTokens(_, _)
\* re.finditer of the number pattern, from pos on: the matched texts in order
NumberTokens(s, pos) ==
  LET m == NumberSearch(s, pos)
  IN  IF m = <<>> THEN <<>>
      ELSE <<SubSeq(s, m[1], m[2])>> \o NumberTokens(s, m[2] + 1)

\* [0-9][0-9\., ]*\s*% matched at the digit s[i]: the position of the
\* percent sign, 0 when there is no match (giving back characters of the first
\* run to \s* reaches the same place)
PercentEnd(s, i) ==
  LET w == RunEnd(s, RunEnd(s, i + 1, NumChars) + 1, Whitespace)
  IN  IF w + 1 <= Len(s) /\ s[w + 1] = "%" THEN w + 1 ELSE 0

\* [+\-]?[0-9][0-9\., ]*\s*% matched from position i: the position of the
\* percent sign, 0 when there is no match
SignedPercentEnd(s, i) ==
  IF s[i] \in Digits THEN PercentEnd(s, i)
  ELSE IF s[i] \in {"+", "-"} /\ i + 1 <= Len(s) /\ s[i + 1] \in Digits
  THEN PercentEnd(s, i + 1)
  ELSE 0

\* the mutant: the percent pieces are left in the line
RemovePercentsNot(s, pos) == SubSeq(s, pos, Len(s))

RECURSIVE RemovePercents(_, _)
\* re.sub(r"[+\-]?[0-9][0-9\., ]*\s*%", " ", raw), from pos on
RemovePercents(s, pos) ==
  LET at == {i \in pos..Len(s) : SignedPercentEnd(s, i) # 0}
  IN  IF at = {} THEN SubSeq(s, pos, Len(s))
      ELSE SubSeq(s, pos, Least(at) - 1) \o <<" ">>
             \o RemovePercents(s, SignedPercentEnd(s, Least(at)) + 1)

(***************************************************************************)
(* candidates_from_window (inside parse_analytics_metrics)                 *)
(***************************************************************************)
MaxDigits == 9

\* 1_000_000_000
Billion == [k |-> "fin", neg |-> FALSE, ds |-> <<1>>, e |-> 9]

\* len(digit_only) > 9 and not re.search(r"[kmbKMB]$", tok)
Absurd(tok) ==
  /\ Cardinality({i \in 1..Len(tok) : tok[i] \in Digits}) > MaxDigits
  /\ ~(Len(tok) > 0 /\ tok[Len(tok)] \in SuffixChars)

\* the mutant: no token is discarded for its length
KeepTokenAlways(tok) == ~NumLess(Billion, _to_number(tok))

\* a token's number is appended
KeepToken(tok) == ~Absurd(tok) /\ ~NumLess(Billion, _to_number(tok))

\* the candidates of one line
LineCandidates(raw) ==
  LET cleaned == IF \E i \in 1..Len(raw) : raw[i] = "%"
                 THEN RemovePercents(raw, 1)
                 ELSE raw
      toks    == SelectSeq(NumberTokens(cleaned, 1), KeepToken)
  IN  [i \in 1..Len(toks) |-> _to_number(toks[i])]

RECURSIVE candidates_from_window(_)
candidates_from_window(window_lines) ==
  IF window_lines = <<>> THEN <<>>
  ELSE LineCandidates(Head(window_lines)) \o candidates_from_window(Tail(window_lines))

(***************************************************************************)
(* extract_numbers_only                                                    *)
(***************************************************************************)
\* [+\-]?\d[\d\., ]*\s*[kmbKMB]?%? matched from position i: the position
\* of the last character, 0 when there is no match
SignedNumberEnd(s, i) ==
  LET d == IF s[i] \in Digits THEN i
           ELSE IF s[i] \in {"+", "-"} /\ i + 1 <= Len(s) /\ s[i + 1] \in Digits
           THEN i + 1
           ELSE 0
      e == NumberEnd(s, d)
  IN  IF d = 0 THEN 0
      ELSE IF e + 1 <= Len(s) /\ s[e + 1] = "%" THEN e + 1 ELSE e

RECURSIVE SignedTokens(_, _)
\* re.findall of that pattern, from pos on
SignedTokens(s, pos) ==
  LET at == {i \in pos..Len(s) : SignedNumberEnd(s, i) # 0}
  IN  IF at = {} THEN <<>>
      ELSE <<SubSeq(s, Least(at), SignedNumberEnd(s, Least(at)))>>
             \o SignedTokens(s, SignedNumberEnd(s, Least(at)) + 1)

\* the text of the argument is taken as get_text gives it
extract_numbers_only(text) ==
  LET tokens == SignedTokens(text, 1)
      tnum(tok) == LET t == Strip(tok)
                   IN  IF EndsWith(t, "%") THEN SubSeq(t, 1, Len(t) - 1) ELSE t
  IN  [i \in 1..Len(tokens) |-> _to_number(tnum(tokens[i]))]

(***************************************************************************)
(* parse_analytics_metrics                                                 *)
(***************************************************************************)
\* impressions?|visualizzazioni
ImpressionsPattern ==
  {
    <<"i", "m", "p", "r", "e", "s", "s", "i", "o", "n", "s?">>,
    <<"v", "i", "s", "u", "a", "l", "i", "z", "z", "a", "z", "i", "o", "n",
      "i">> }

\* reactions?|reazioni
ReactionsPattern ==
  {
    <<"r", "e", "a", "c", "t", "i", "o", "n", "s?">>,
    <<"r", "e", "a", "z", "i", "o", "n", "i">> }

\* comments?|commenti
CommentsPattern ==
  {
    <<"c", "o", "m", "m", "e", "n", "t", "s?">>,
    <<"c", "o", "m", "m", "e", "n", "t", "i">> }

\* reposts?|condivisioni|repost
RepostsPattern ==
  {
    <<"r", "e", "p", "o", "s", "t", "s?">>,
    <<"c", "o", "n", "d", "i", "v", "i", "s", "i", "o", "n", "i">>,
    <<"r", "e", "p", "o", "s", "t">> }

\* engagement\s*rate|tasso\s*di\s*coinvolgimento
EngagementRatePattern ==
  {
    <<"e", "n", "g", "a", "g", "e", "m", "e", "n", "t", "\\s*", "r", "a",
      "t", "e">>,
    <<"t", "a", "s", "s", "o", "\\s*", "d", "i", "\\s*", "c", "o", "i", "n",
      "v", "o", "l", "g", "i", "m", "e", "n", "t", "o">> }

\* follows?|nuovi\s*followers?|seguaci|seguaci\s*nuovi
FollowsPattern ==
  {
    <<"f", "o", "l", "l", "o", "w", "s?">>,
    <<"n", "u", "o", "v", "i", "\\s*", "f", "o", "l", "l", "o", "w", "e",
      "r", "s?">>,
    <<"s", "e", "g", "u", "a", "c", "i">>,
    <<"s", "e", "g", "u", "a", "c", "i", "\\s*", "n", "u", "o", "v", "i">> }

\* unique\s*viewers|spettatori\s*unici|visualizzatori\s*unici
UniqueViewersPattern ==
  {
    <<"u", "n", "i", "q", "u", "e", "\\s*", "v", "i", "e", "w", "e", "r", "s">>,
    <<"s", "p", "e", "t", "t", "a", "t", "o", "r", "i", "\\s*", "u", "n",
      "i", "c", "i">>,
    <<"v", "i", "s", "u", "a", "l", "i", "z", "z", "a", "t", "o", "r", "i",
      "\\s*", "u", "n", "i", "c", "i">> }

\* the labels in the order of the dictionary
Labels ==
  <<"Impressions", "Reactions", "Comments", "Reposts", "EngagementRate", "Follows",
    "UniqueViewers">>

label_patterns ==
  [Impressions |-> ImpressionsPattern, Reactions |-> ReactionsPattern,
   Comments |-> CommentsPattern, Reposts |-> RepostsPattern,
   EngagementRate |-> EngagementRatePattern, Follows |-> FollowsPattern,
   UniqueViewers |-> UniqueViewersPattern]

CountLabels == {"Impressions", "Reactions", "Comments", "Reposts", "UniqueViewers"}

WindowSize == 3

\* 100000
SmallInt == [k |-> "fin", neg |-> FALSE, ds |-> <<1>>, e |-> 5]

RECURSIVE MaxOf(_)
\* max(nums): the first of the largest
MaxOf(nums) ==
  IF Len(nums) = 1 THEN nums[1]
  ELSE LET m == MaxOf(SubSeq(nums, 1, Len(nums) - 1))
       IN  IF NumLess(m, nums[Len(nums)]) THEN nums[Len(nums)] ELSE m

\* the mutant: the largest candidate, whatever the label
SelectMax(label, nums) == MaxOf(nums)

\* the mutant: the first candidate, whatever the label
SelectFirst(label, nums) == nums[1]

\* the heuristics by label, lines 282-290
SelectValue(label, nums) ==
  IF label \in CountLabels THEN MaxOf(nums)
  ELSE IF label = "Follows"
  THEN LET small_ints == SelectSeq(nums, LAMBDA n : IsInteger(n) /\ ~NumLess(SmallInt, n))
       IN  IF small_ints # <<>> THEN small_ints[1] ELSE nums[1]
  ELSE nums[1]

\* lines[i:i+3]
WindowAt(lines, i) ==
  SubSeq(lines, i, IF i + WindowSize - 1 < Len(lines) THEN i + WindowSize - 1 ELSE Len(lines))

\* the mutant: only the first matching line is tried
ScanLabelFirstOnly(label, lines, i) ==
  LET at == {j \in i..Len(lines) : Search(label_patterns[label], lines[j])}
  IN  IF at = {} \/ candidates_from_window(WindowAt(lines, Least(at))) = <<>> THEN <<>>
      ELSE <<SelectValue(label, candidates_from_window(WindowAt(lines, Least(at))))>>

RECURSIVE ScanLabel(_, _, _)
\* the inner loop, from line i on: <<val>> at the break, <<>> when the lines run out
ScanLabel(label, lines, i) ==
  IF i > Len(lines) THEN <<>>
  ELSE IF ~Search(label_patterns[label], lines[i]) THEN ScanLabel(label, lines, i + 1)
  ELSE LET nums == candidates_from_window(WindowAt(lines, i))
       IN  IF nums = <<>> THEN ScanLabel(label, lines, i + 1)
           ELSE <<SelectValue(label, nums)>>

\* [ln for ln in text.split('\n') if ln.strip()]
NonBlank(text_lines) == SelectSeq(text_lines, LAMBDA ln : Strip(ln) # <<>>)

\* the argument is the page text split at its line feeds
parse_analytics_metrics(text_lines) ==
  LET lines == NonBlank(text_lines)
      found == {i \in 1..Len(Labels) : ScanLabel(Labels[i], lines, 1) # <<>>}
  IN  [label \in {Labels[i] : i \in found} |-> ScanLabel(label, lines, 1)[1]]

(***************************************************************************)
(* parse_posts_blocks                                                      *)
(***************************************************************************)
\* [ln.strip() for ln in (text or "").split('\n') if ln and ln.strip()]
_normalize_lines(text_lines) ==
  LET kept == SelectSeq(text_lines, LAMBDA ln : Strip(ln) # <<>>)
  IN  [i \in 1..Len(kept) |-> Strip(kept[i])]

\* ha\s+pubblicato\s+questo\s+post|published\s+this\s+post
PublishedPattern ==
  {
    <<"h", "a", "\\s+", "p", "u", "b", "b", "l", "i", "c", "a", "t", "o",
      "\\s+", "q", "u", "e", "s", "t", "o", "\\s+", "p", "o", "s", "t">>,
    <<"p", "u", "b", "l", "i", "s", "h", "e", "d", "\\s+", "t", "h", "i",
      "s", "\\s+", "p", "o", "s", "t">> }

\* impressioni|impressions
PostImpressionsPattern ==
  {
    <<"i", "m", "p", "r", "e", "s", "s", "i", "o", "n", "i">>,
    <<"i", "m", "p", "r", "e", "s", "s", "i", "o", "n", "s">> }

\* like|mi\s+piace|reactions?
PostLikesPattern ==
  {
    <<"l", "i", "k", "e">>,
    <<"m", "i", "\\s+", "p", "i", "a", "c", "e">>,
    <<"r", "e", "a", "c", "t", "i", "o", "n", "s?">> }

\* commenti|comments
PostCommentsPattern ==
  {
    <<"c", "o", "m", "m", "e", "n", "t", "i">>,
    <<"c", "o", "m", "m", "e", "n", "t", "s">> }

PostWindow == 12

SnippetLength == 180

\* an optional value: None, or the one value it holds
None == <<>>

Some(x) == <<x>>

\* \b between s[j] and s[j+1]: one of the two is a word character
Boundary(s, j) ==
  (j >= 1 /\ j <= Len(s) /\ s[j] \in WordChars)
    # (j + 1 >= 1 /\ j + 1 <= Len(s) /\ s[j + 1] \in WordChars)

\* \b([0-9][0-9\., ]*)\b matched at the digit s[i]: the run is given back
\* until a boundary follows it; the position of the last character, 0: no match
BoundedEnd(s, i) ==
  LET ok == {j \in i..RunEnd(s, i + 1, NumChars) : Boundary(s, j)}
  IN  IF ~Boundary(s, i - 1) \/ ok = {} THEN 0
      ELSE CHOOSE j \in ok : \A h \in ok : h <= j

\* re.search of that pattern: <<first, last>>, or <<>>
BoundedSearch(s) ==
  LET at == {i \in 1..Len(s) : s[i] \in Digits /\ BoundedEnd(s, i) # 0}
  IN  IF at = {} THEN <<>> ELSE <<Least(at), BoundedEnd(s, Least(at))>>

\* the text of a match
Group(s, m) == SubSeq(s, m[1], m[2])

\* re.search(r"•\s*([^•]+)$", ln), group(1).strip(): what follows the
\* last bullet, when something does
RelativeTime(ln) ==
  LET at == {i \in 1..Len(ln) : ln[i] = BULLET}
      b  == CHOOSE i \in at : \A j \in at : j <= i
  IN  IF at = {} \/ b = Len(ln) THEN None ELSE Some(Strip(SubSeq(ln, b + 1, Len(ln))))

\* int(x) if x is not None and float(x).is_integer() else (float(x) if ...)
IntOrFloat(x) ==
  IF x = None THEN None
  ELSE Some([type |-> IF IsInteger(x[1]) THEN "int" ELSE "float", value |-> x[1]])

\* the mutant: likes and comments are looked for only once impressions is set
ScanLineChained(acc, w) ==
  LET mi == NumberSearch(w, 1)
      mb == BoundedSearch(w)
      im == IF acc.impressions = None /\ Search(PostImpressionsPattern, w) /\ mi # <<>>
            THEN Some(_to_number(Group(w, mi))) ELSE acc.impressions
  IN  [impressions |-> im,
       likes |->
         IF im # None /\ acc.likes = None /\ Search(PostLikesPattern, w) /\ mb # <<>>
         THEN Some(_to_number(Group(w, mb))) ELSE acc.likes,
       comments |->
         IF im # None /\ acc.comments = None /\ Search(PostCommentsPattern, w) /\ mb # <<>>
         THEN Some(_to_number(Group(w, mb))) ELSE acc.comments]

\* the body of the loop over the window, lines 440-451
ScanLine(acc, w) ==
  LET mi == NumberSearch(w, 1)
      mb == BoundedSearch(w)
  IN  [impressions |->
         IF acc.impressions = None /\ Search(PostImpressionsPattern, w) /\ mi # <<>>
         THEN Some(_to_number(Group(w, mi))) ELSE acc.impressions,
       likes |->
         IF acc.likes = None /\ Search(PostLikesPattern, w) /\ mb # <<>>
         THEN Some(_to_number(Group(w, mb))) ELSE acc.likes,
       comments |->
         IF acc.comments = None /\ Search(PostCommentsPattern, w) /\ mb # <<>>
         THEN Some(_to_number(Group(w, mb))) ELSE acc.comments]

RECURSIVE ScanWindow(_)
\* the loop over the window
ScanWindow(window) ==
  IF window = <<>> THEN [impressions |-> None, likes |-> None, comments |-> None]
  ELSE ScanLine(ScanWindow(SubSeq(window, 1, Len(window) - 1)), window[Len(window)])

\* lines[i:i+12]
PostWindowAt(lines, i) ==
  SubSeq(lines, i, IF i + PostWindow - 1 < Len(lines) THEN i + PostWindow - 1 ELSE Len(lines))

\* the record of the post published at line i
PostAt(lines, i) ==
  LET found == ScanWindow(PostWindowAt(lines, i))
  IN  [relativeTime |-> RelativeTime(lines[i]),
       impressions  |-> IntOrFloat(found.impressions),
       likes        |-> IntOrFloat(found.likes),
       comments     |-> IntOrFloat(found.comments),
       textSnippet  |->
         IF i + 1 <= Len(lines)
         THEN Some(IF Len(lines[i + 1]) > SnippetLength
                   THEN SubSeq(lines[i + 1], 1, SnippetLength) \o <<ELLIPSIS>>
                   ELSE lines[i + 1])
         ELSE None]

RECURSIVE PostsFrom(_, _)
\* the loop over the lines, from line i on
PostsFrom(lines, i) ==
  IF i > Len(lines) THEN <<>>
  ELSE IF Search(PublishedPattern, lines[i])
  THEN <<PostAt(lines, i)>> \o PostsFrom(lines, i + 1)
  ELSE PostsFrom(lines, i + 1)

\* the argument is the text split at its line feeds
parse_posts_blocks(text_lines) == PostsFrom(_normalize_lines(text_lines), 1)

(***************************************************************************)
(* parse_posts_from_analytics_html.  The page is the sequence of its       *)
(* blocks div.member-analytics-addon__cta-item-with-secondary-metric, each *)
(* with the text of its title element and of its label element, None for   *)
(* an element that is missing.                                             *)
(***************************************************************************)
\* the mutant: a value of exactly 0 or 1_000_000_000 is kept
KeepValueInclusive(val) == ~NumLess(Billion, val)

\* val and val < 1_000_000_000
KeepValue(val) == val # Zero /\ val.k # "nan" /\ NumLess(val, Billion)

\* the body of the loop: the record of the block, None when it is skipped
BlockPost(blk) ==
  IF blk.title = None \/ blk.label = None THEN None
  ELSE IF ~Search(PostImpressionsPattern, Lower(blk.label[1])) THEN None
  ELSE LET mnum == NumberSearch(blk.title[1], 1)
       IN  IF mnum = <<>> THEN None
           ELSE IF KeepValue(_to_number(Group(blk.title[1], mnum)))
           THEN Some([impressions |->
                        IntOrFloat(Some(_to_number(Group(blk.title[1], mnum))))[1]])
           ELSE None

RECURSIVE BlockPosts(_)
\* the loop over the blocks
BlockPosts(blocks) ==
  IF blocks = <<>> THEN <<>>
  ELSE BlockPost(Head(blocks)) \o BlockPosts(Tail(blocks))

parse_posts_from_analytics_html(blocks) == BlockPosts(blocks)

(***************************************************************************)
(* compute_and_return.  A series is a sequence of natural numbers, as      *)
(* extract_int_list builds it.  The pandas operations are modelled by what *)
(* they do to one column: DataFrame(...)[:num_posts] slices the rows,      *)
(* median() and std() skip missing values and std() divides by n - 1,      *)
(* df[mask] keeps the shape and puts NaN where the mask is false,          *)
(* fillna(median) fills the NaN, and a NaN median or std (no value, or     *)
(* one value only) makes every comparison false and every fill a no-op.    *)
(* The comparison with 3 * std is made exactly, on squares; where a sample *)
(* lies at exactly 3 standard deviations of a series that is not constant  *)
(* the floating-point result depends on rounding, and either outcome is    *)
(* allowed: rounding is TRUE when the sample is retained.                  *)
(***************************************************************************)
Reversed(s) == [i \in 1..Len(s) |-> s[Len(s) + 1 - i]]

\* s[:n]
Slice(s, n) ==
  IF n >= 0 THEN SubSeq(s, 1, IF n < Len(s) THEN n ELSE Len(s))
  ELSE SubSeq(s, 1, IF Len(s) + n > 0 THEN Len(s) + n ELSE 0)

RECURSIVE Sum(_)
Sum(s) == IF s = <<>> THEN 0 ELSE Head(s) + Sum(Tail(s))

Squares(s) == [i \in 1..Len(s) |-> s[i] * s[i]]

\* the k-th smallest sample
Kth(s, k) ==
  CHOOSE v \in {s[i] : i \in 1..Len(s)} :
    /\ Cardinality({i \in 1..Len(s) : s[i] < v}) < k
    /\ Cardinality({i \in 1..Len(s) : s[i] <= v}) >= k

\* twice the median of a series that is not empty
TwiceMedian(s) ==
  IF Len(s) % 2 = 1 THEN 2 * Kth(s, (Len(s) + 1) \div 2)
  ELSE Kth(s, Len(s) \div 2) + Kth(s, Len(s) \div 2 + 1)

\* (2 * (x - median)) ^ 2 * n * (n - 1), for the comparison with 3 * std
Distance(s, x) ==
  (2 * x - TwiceMedian(s)) * (2 * x - TwiceMedian(s)) * Len(s) * (Len(s) - 1)

\* (2 * 3 * std) ^ 2 * n * (n - 1)
Band(s) == 36 * (Len(s) * Sum(Squares(s)) - Sum(s) * Sum(s))

\* the mutant: the band is one standard deviation wide
WithinOneDeviation(s, x, rounding) ==
  /\ Len(s) >= 2
  /\ \/ 9 * Distance(s, x) < Band(s)
     \/ 9 * Distance(s, x) = Band(s) /\ (Band(s) = 0 \/ rounding)

\* np.abs(x - median) <= 3 * std
Within(s, x, rounding) ==
  /\ Len(s) >= 2
  /\ \/ Distance(s, x) < Band(s)
     \/ Distance(s, x) = Band(s) /\ (Band(s) = 0 \/ rounding)

\* df[mask]: the sample, or None for NaN
Masked(s, rounding) ==
  [i \in 1..Len(s) |-> IF Within(s, s[i], rounding) THEN Some(s[i]) ELSE None]

\* the mutant: the samples outside the band are removed
CleanedByDropping(s, rounding) == Flat(Masked(s, rounding))

\* fillna(median).dropna().astype(int).tolist()
Cleaned(s, rounding) ==
  LET kept == Flat(Masked(s, rounding))
  IN  IF kept = <<>> THEN <<>>
      ELSE [i \in 1..Len(s) |->
              IF Within(s, s[i], rounding) THEN s[i] ELSE TwiceMedian(kept) \div 2]

compute_and_return(num_posts, likes, comments, views, rounding) ==
  [likes    |-> Cleaned(Slice(Reversed(likes), num_posts), rounding.likes),
   comments |-> Cleaned(Slice(Reversed(comments), num_posts), rounding.comments),
   views    |-> Cleaned(Slice(Reversed(views), num_posts), rounding.views)]

(***************************************************************************)
(* trend_and_plot (inside compute_and_return).  A sample of the series is  *)
(* Some(number), or None when to_numeric and the replacement of the        *)
(* infinities leave NaN.  The fit of np.polyfit(x, y, 1, full=True) is     *)
(* computed exactly: a fraction is a pair of integers in lowest terms, and *)
(* the square root of the normalized error is left symbolic.  The prints   *)
(* are left out.                                                           *)
(***************************************************************************)
RECURSIVE GCD(_, _)
GCD(a, b) == IF b = 0 THEN a ELSE GCD(b, a % b)

Abs(a) == IF a < 0 THEN -a ELSE a

\* the fraction a / b, b # 0, in lowest terms with a positive denominator
Ratio(a, b) ==
  LET g == GCD(Abs(a), Abs(b))
      s == IF b < 0 THEN -1 ELSE 1
  IN  [n |-> s * (a \div g), d |-> s * (b \div g)]

\* np.sqrt of a fraction
Sqrt(q) == [sqrt |-> q]

\* _clean_series: the samples that are numbers, in order
_clean_series(series) == Flat(series)

\* the mutant: a series of identical samples is fitted
TooShort(s) == Len(s) < 2

\* len(s) < 2 or s.nunique() == 1
NothingToFit(s) == Len(s) < 2 \/ Cardinality({s[i] : i \in 1..Len(s)}) = 1

\* x = np.arange(len(s))
Arange(n) == [i \in 1..n |-> i - 1]

Products(x, y) == [i \in 1..Len(x) |-> x[i] * y[i]]

\* the least-squares line through (x[i], s[i]), as the numerators of slope
\* and of the fitted values over the denominators den and n * den
LeastSquares(s) ==
  LET n   == Len(s)
      x   == Arange(n)
      den == n * Sum(Squares(x)) - Sum(x) * Sum(x)
      num == n * Sum(Products(x, s)) - Sum(x) * Sum(s)
  IN  [num |-> num, den |-> den,
       fitted |-> [i \in 1..n |-> num * n * x[i] + Sum(s) * den - num * Sum(x)]]

\* residuals[0]: the sum of the squared residuals, times (n * den) ^ 2
SquaredResiduals(s) ==
  LET ls == LeastSquares(s)
      D  == Len(s) * ls.den
  IN  Sum(Squares([i \in 1..Len(s) |-> s[i] * D - ls.fitted[i]]))

\* (s.max() - s.min()) if (s.max() - s.min()) != 0 else 1
Spread(s) ==
  LET hi == CHOOSE v \in {s[i] : i \in 1..Len(s)} : \A j \in 1..Len(s) : s[j] <= v
      lo == CHOOSE v \in {s[i] : i \in 1..Len(s)} : \A j \in 1..Len(s) : s[j] >= v
  IN  IF hi - lo # 0 THEN hi - lo ELSE 1

\* the result of the try block; lstsq gives no residuals for two points
Fitted(s) ==
  LET ls == LeastSquares(s)
      D  == Len(s) * ls.den
      mse == IF Len(s) > 2 THEN Ratio(SquaredResiduals(s), D * D * Len(s))
             ELSE Ratio(0, 1)
  IN  [slope  |-> Some(Ratio(ls.num, ls.den)),
       nrmse  |-> Some(Sqrt(Ratio(mse.n, mse.d * Spread(s) * Spread(s)))),
       series |-> s,
       trend  |-> [i \in 1..Len(s) |-> Ratio(ls.fitted[i], D)]]

trend_and_plot(series) ==
  LET s == _clean_series(series)
  IN  IF NothingToFit(s) THEN [slope |-> None, nrmse |-> None, series |-> s]
      ELSE Fitted(s)

(***************************************************************************)
(* extract_hashtags_from_html.  The document is given by its text, which   *)
(* get_text(" ", strip=True) returns.  U+0130, the capital I with a dot,   *)
(* is the one character whose lower case is two characters long: i and the *)
(* combining dot U+0307, which is no word character.                       *)
(***************************************************************************)
DOTTED_I == "dotted_I"    \* U+0130
DOT_ABOVE == "dot_above"  \* U+0307

\* the class [\wÀ-ÖØ-öø-ÿ0-9_]
TagChars == WordChars \cup {DOTTED_I}

RECURSIVE FindTags(_, _)
\* re.findall(r"#[\wÀ-ÖØ-öø-ÿ0-9_]+", text), from position i on
FindTags(text, i) ==
  IF i > Len(text) THEN <<>>
  ELSE IF text[i] = "#" /\ RunEnd(text, i + 1, TagChars) > i
       THEN <<SubSeq(text, i, RunEnd(text, i + 1, TagChars))>>
              \o FindTags(text, RunEnd(text, i + 1, TagChars) + 1)
       ELSE FindTags(text, i + 1)

\* t.lower()
LowerTag(t) ==
  Flat([i \in 1..Len(t) |-> IF t[i] = DOTTED_I THEN <<"i", DOT_ABOVE>>
                            ELSE Lower(<<t[i]>>)])

\* the mutant: every tag is appended, seen or not
OrderedAll(tags) == [i \in 1..Len(tags) |-> LowerTag(tags[i])]

RECURSIVE Ordered(_)
\* the loop over the tags: ordered, with the lower-cased tags not yet seen
Ordered(tags) ==
  IF tags = <<>> THEN <<>>
  ELSE LET before == Ordered(SubSeq(tags, 1, Len(tags) - 1))
           k      == LowerTag(tags[Len(tags)])
       IN  IF \E i \in 1..Len(before) : before[i] = k THEN before
           ELSE Append(before, k)

extract_hashtags_from_html(html) == Ordered(FindTags(Strip(html), 1))

(***************************************************************************)
(* main.  While main runs, fn is "main" and pc the statement main stands   *)
(* before; arg is what the browser has to show (the page, its iframes,     *)
(* whether the directory can be written) and ret what main has done so     *)
(* far.  A call of the browser either returns or raises; what is raised    *)
(* inside the try block of main leads to driver.quit() in its finally.     *)
(* The statements after the return of line 607 cannot be reached and so    *)
(* are no actions.                                                         *)
(***************************************************************************)
\* nothing done yet
Started ==
  [parts |-> <<>>, frame |-> 0, files |-> {}, printed |-> <<>>, parsed |-> {},
   csv |-> {}, quit |-> FALSE, raised |-> FALSE]

\* an exception leaves the try block
Raised(done) == [done EXCEPT !.raised = TRUE]

\* "<!-- MAIN DOCUMENT START -->\n" + main_html + "\n<!-- MAIN DOCUMENT END -->"
MainPart(html) == [of |-> "MAIN DOCUMENT", html |-> html]

\* f"<!-- IFRAME {idx} START -->\n" + frame_html + f"\n<!-- IFRAME {idx} END -->"
FramePart(idx, html) == [of |-> "IFRAME", idx |-> idx, html |-> html]

(***************************************************************************)
(* Inputs of _to_number                                                    *)
(***************************************************************************)
MaxBody == 3

TokenLeads == {<<>>, <<"+">>, <<"-">>, <<"a", "b", "c">>}

TokenBody == {<<"1">>, <<"2">>, <<".">>, <<",">>, <<"e">>}

TokenTails == {<<>>, <<"k">>, <<"M">>, <<"b">>, <<" ", "K">>, <<"x", "y", "z">>}

TokenExamples ==
  { <<"1", ",", "2", "3", "4">>, <<"1", ".", "2", "k">>, <<"3", ",", "5">>,
    <<"2", "m">>, <<"g", "a", "r", "b", "a", "g", "e">>,
    <<"a", "b", "c", "1", "2", "3", "x", "y", "z">>,
    <<"i", "n", "f">>, <<"N", "a", "N">>, <<"1", NNBSP, "2", "3", "4">>, <<>>,
    <<" ", "1", "0", " ", "0", "0", "0", " ">>, <<"1", "2", "%">>, <<"0">>, <<"-", "0">> }

Texts(pieces, n) == UNION {{Flat(f) : f \in [1..m -> pieces]} : m \in 0..n}

Tokens ==
  TokenExamples \cup
  {l \o b \o t : l \in TokenLeads, b \in Texts(TokenBody, MaxBody), t \in TokenTails}

(***************************************************************************)
(* Inputs of candidates_from_window and extract_numbers_only               *)
(***************************************************************************)
MaxPieces == 3

Impressions == <<"I", "m", "p", "r", "e", "s", "s", "i", "o", "n", "s">>

LinePieces ==
  { <<"1">>, <<"1", "2", "3", "4", "5">>, <<",">>, <<".">>, <<" ">>, <<NNBSP>>,
    <<"k">>, <<"%">>, <<"+">>, <<"x">> }

\* "1,234 Impressions (+12%)"
LineWithPercent ==
  <<"1", ",", "2", "3", "4", " ">> \o Impressions \o <<" ", "(", "+", "1", "2", "%", ")">>

\* "12 members"
TwelveMembers == <<"1", "2", " ", "m", "e", "m", "b", "e", "r", "s">>

\* "3 months ago"
ThreeMonthsAgo == <<"3", " ", "m", "o", "n", "t", "h", "s", " ", "a", "g", "o">>

ExampleLines ==
  { LineWithPercent, Impressions, TwelveMembers, ThreeMonthsAgo, <<"3", "5", "8">>,
    <<"4", "2">>,
    <<"+", "1", "5", "%">>, <<"5", "k", "%">>,
    <<"1", "2", "3", "4", "5", "6", "7", "8", "9", "0">>,
    <<"1", "2", "3", "4", "5", "6", "7", "8", "9", "0", "k">>,
    <<"-", "2", "0", " ", "M", "%">>, <<"(", "2", "B", ")">> }

Lines == ExampleLines \cup (Texts(LinePieces, MaxPieces) \ {<<>>})

Windows ==
  {<<l>> : l \in Lines} \cup {<<a, b>> : a, b \in ExampleLines}
    \cup {<<Impressions, <<"3", "5", "8">>, <<"4", "2">> >>}

PageTexts == ExampleLines \cup Texts(LinePieces \cup {<<NL>>}, MaxPieces)

(***************************************************************************)
(* Inputs of parse_analytics_metrics                                       *)
(***************************************************************************)
MaxLines == 4

\* "Rendimento dei contenuti"
ContentPerformance ==
  <<"R", "e", "n", "d", "i", "m", "e", "n", "t", "o", " ", "d", "e", "i",
    " ", "c", "o", "n", "t", "e", "n", "u", "t", "i">>

\* "Impressioni 1.2k"
ImpressioniCompact ==
  <<"I", "m", "p", "r", "e", "s", "s", "i", "o", "n", "i", " ", "1", ".",
    "2", "k">>

\* "Follows"
OnlyFollows ==
  <<"F", "o", "l", "l", "o", "w", "s">>

\* "Follows: 7"
FollowsSeven ==
  <<"F", "o", "l", "l", "o", "w", "s", ":", " ", "7">>

\* "Impressions: 50000"
ImpressionsFiftyThousand ==
  <<"I", "m", "p", "r", "e", "s", "s", "i", "o", "n", "s", ":", " ", "5",
    "0", "0", "0", "0">>

\* "Impressions: 50000 Follows: 7"
BothOnOneLine ==
  <<"I", "m", "p", "r", "e", "s", "s", "i", "o", "n", "s", ":", " ", "5",
    "0", "0", "0", "0", " ", "F", "o", "l", "l", "o", "w", "s", ":", " ", "7">>

\* "Engagement rate 3.5 12"
EngagementLine ==
  <<"E", "n", "g", "a", "g", "e", "m", "e", "n", "t", " ", "r", "a", "t",
    "e", " ", "3", ".", "5", " ", "1", "2">>

\* "Impressions: 500000"
ImpressionsHalfMillion ==
  <<"I", "m", "p", "r", "e", "s", "s", "i", "o", "n", "s", ":", " ", "5",
    "0", "0", "0", "0", "0">>

PageLines ==
  { Impressions, <<"3", "5", "8">>, <<"4", "2">>, <<"+", "1", "5", "%">>,
    ImpressionsFiftyThousand }

ExamplePages ==
  { <<Impressions, <<"3", "5", "8">>, <<"4", "2">> >>,
    <<ContentPerformance, ImpressioniCompact, <<"+", "1", "5", "%">> >>,
    <<FollowsSeven, ImpressionsFiftyThousand>>,
    <<FollowsSeven, <<"4", "2">>, ImpressionsFiftyThousand>>,
    <<Impressions, <<" ">>, <<>>, <<"3", "5", "8">> >>,
    <<OnlyFollows, ImpressionsFiftyThousand, FollowsSeven>>,
    <<OnlyFollows, FollowsSeven, ImpressionsFiftyThousand>>,
    <<OnlyFollows, ImpressionsHalfMillion, FollowsSeven>>,
    <<BothOnOneLine>>,
    <<EngagementLine>> }

Pages == ExamplePages \cup UNION {[1..n -> PageLines] : n \in 0..MaxLines}

(***************************************************************************)
(* Inputs of parse_posts_blocks                                            *)
(***************************************************************************)
MaxTail == 3

PadLines == 10

\* "Ann published this post • 2d"
PublishedLine ==
  <<"A", "n", "n", " ", "p", "u", "b", "l", "i", "s", "h", "e", "d", " ",
    "t", "h", "i", "s", " ", "p", "o", "s", "t", " ", BULLET, " ", "2", "d">>

\* "Ha  pubblicato questo post"
PubblicatoLine ==
  <<"H", "a", " ", " ", "p", "u", "b", "b", "l", "i", "c", "a", "t", "o",
    " ", "q", "u", "e", "s", "t", "o", " ", "p", "o", "s", "t">>

\* "1.2k impressions"
PostImpressionsLine ==
  <<"1", ".", "2", "k", " ", "i", "m", "p", "r", "e", "s", "s", "i", "o",
    "n", "s">>

\* " 12 likes"
PostLikesLine ==
  <<" ", "1", "2", " ", "l", "i", "k", "e", "s">>

\* "3 comments"
PostCommentsLine ==
  <<"3", " ", "c", "o", "m", "m", "e", "n", "t", "s">>

\* "3k likes"
LikesCompactLine ==
  <<"3", "k", " ", "l", "i", "k", "e", "s">>

\* "Reactions: 1,5 Comments: 7"
LikesAndCommentsLine ==
  <<"R", "e", "a", "c", "t", "i", "o", "n", "s", ":", " ", "1", ",", "5",
    " ", "C", "o", "m", "m", "e", "n", "t", "s", ":", " ", "7">>

\* "Hello"
FillerLine ==
  <<"H", "e", "l", "l", "o">>

PostLines ==
  { PublishedLine, PostImpressionsLine, PostLikesLine, PostCommentsLine, LikesCompactLine,
    FillerLine }

Padding == [i \in 1..PadLines |-> FillerLine]

PostTexts ==
  LET tails == UNION {[1..n -> PostLines] : n \in 0..MaxTail}
  IN  tails \cup {<<PublishedLine>> \o Padding \o t : t \in tails}
        \cup { <<PubblicatoLine, LikesAndCommentsLine>>,
               <<PublishedLine, <<" ">>, <<>>, LikesAndCommentsLine, PostImpressionsLine>> }

(***************************************************************************)
(* Inputs of parse_posts_from_analytics_html                               *)
(***************************************************************************)
MaxBlocks == 2

BlockTitles ==
  { None, Some(<<"3", "5", "8">>), Some(<<"0">>), Some(<<"1", "B">>), Some(<<"2", "b">>),
    Some(<<"7", ".", "5">>), Some(<<"9", "9", "9", ".", "9", "M">>),
    Some(<<"1", ",", "0", "0", "0", ",", "0", "0", "0", ",", "0", "0", "0">>),
    Some(<<"n", "/", "a">>) }

BlockLabels ==
  { None, Some(<<"I", "m", "p", "r", "e", "s", "s", "i", "o", "n", "i">>),
    Some(<<"I", "m", "p", "r", "e", "s", "s", "i", "o", "n", "s">>),
    Some(<<"R", "e", "a", "c", "t", "i", "o", "n", "s">>) }

Blocks == {[title |-> t, label |-> l] : t \in BlockTitles, l \in BlockLabels}

BlockPages == UNION {[1..n -> Blocks] : n \in 0..MaxBlocks}

(***************************************************************************)
(* Inputs of compute_and_return                                            *)
(***************************************************************************)
MaxSeries == 11
MaxShort == 5
High == 9

Repeat(x, n) == [i \in 1..n |-> x]

\* the series of zeros, ones and high values, in runs, up to MaxSeries long
RunSeries ==
  UNION {{Repeat(0, a) \o Repeat(1, b) \o Repeat(High, c),
          Repeat(High, c) \o Repeat(1, b) \o Repeat(0, a)} :
         <<a, b, c>> \in {t \in (0..MaxSeries) \X (0..MaxSeries) \X (0..MaxSeries) :
                            t[1] + t[2] + t[3] <= MaxSeries}}

ShortSeries == UNION {[1..n -> {0, 1}] : n \in 0..MaxShort}

ExampleSeries == {<<10, 12, 11, 1000, 9>>, <<5, 5, 5>>, <<1, 2, 3, 4>>}

Series == RunSeries \cup ShortSeries \cup ExampleSeries

SideSeries == {<<>>, <<3, 4>>}

PostCounts == {3, MaxSeries - 1, MaxSeries}

SeriesKeys == {"likes", "comments", "views"}

(***************************************************************************)
(* Inputs of trend_and_plot                                                *)
(***************************************************************************)
MaxPoints == 4

Samples == {None, Some(0), Some(1), Some(5)}

TrendSeries == UNION {[1..n -> Samples] : n \in 0..MaxPoints}

(***************************************************************************)
(* Inputs of extract_hashtags_from_html                                    *)
(***************************************************************************)
MaxHashPieces == 4

HashPieces ==
  { <<"#", "a">>, <<"#", "A">>, <<"#", "b", "_", "1">>, <<"#", DOTTED_I>>,
    <<" ">>, <<"a">>, <<"#">>, <<"-">> }

HashTexts == Texts(HashPieces, MaxHashPieces)

(***************************************************************************)
(* Inputs of main                                                          *)
(***************************************************************************)
MaxFrames == 2

Documents == {"analytics", "login wall", ""}

\* an iframe shows a document, or is gone when main switches to it
Frames == UNION {[1..n -> {Some(d) : d \in Documents} \cup {None}] : n \in 0..MaxFrames}

Browsers == [page : Documents, frames : Frames, writable : BOOLEAN]

(***************************************************************************)
(* Specification                                                           *)
(***************************************************************************)
InitNumber == pc = "call" /\ fn = "_to_number" /\ arg \in Tokens /\ ret = <<>>

CallToNumber ==
  /\ pc = "call" /\ fn = "_to_number"
  /\ ret' = _to_number(arg)
  /\ pc' = "return"
  /\ UNCHANGED <<fn, arg>>

NextNumber == CallToNumber

SpecNumber == InitNumber /\ [][NextNumber]_vars

InitExtract ==
  /\ pc = "call"
  /\ \/ fn = "candidates_from_window" /\ arg \in Windows
     \/ fn = "extract_numbers_only" /\ arg \in PageTexts
  /\ ret = <<>>

CallCandidatesFromWindow ==
  /\ pc = "call" /\ fn = "candidates_from_window"
  /\ ret' = candidates_from_window(arg)
  /\ pc' = "return"
  /\ UNCHANGED <<fn, arg>>

CallExtractNumbersOnly ==
  /\ pc = "call" /\ fn = "extract_numbers_only"
  /\ ret' = extract_numbers_only(arg)
  /\ pc' = "return"
  /\ UNCHANGED <<fn, arg>>

NextExtract == CallCandidatesFromWindow \/ CallExtractNumbersOnly

SpecExtract == InitExtract /\ [][NextExtract]_vars

InitMetrics ==
  pc = "call" /\ fn = "parse_analytics_metrics" /\ arg \in Pages /\ ret = <<>>

CallParseAnalyticsMetrics ==
  /\ pc = "call" /\ fn = "parse_analytics_metrics"
  /\ ret' = parse_analytics_metrics(arg)
  /\ pc' = "return"
  /\ UNCHANGED <<fn, arg>>

NextMetrics == CallParseAnalyticsMetrics

SpecMetrics == InitMetrics /\ [][NextMetrics]_vars

InitPosts ==
  pc = "call" /\ fn = "parse_posts_blocks" /\ arg \in PostTexts /\ ret = <<>>

CallParsePostsBlocks ==
  /\ pc = "call" /\ fn = "parse_posts_blocks"
  /\ ret' = parse_posts_blocks(arg)
  /\ pc' = "return"
  /\ UNCHANGED <<fn, arg>>

NextPosts == CallParsePostsBlocks

SpecPosts == InitPosts /\ [][NextPosts]_vars

InitHtmlPosts ==
  /\ pc = "call" /\ fn = "parse_posts_from_analytics_html"
  /\ arg \in BlockPages /\ ret = <<>>

CallParsePostsFromAnalyticsHtml ==
  /\ pc = "call" /\ fn = "parse_posts_from_analytics_html"
  /\ ret' = parse_posts_from_analytics_html(arg)
  /\ pc' = "return"
  /\ UNCHANGED <<fn, arg>>

NextHtmlPosts == CallParsePostsFromAnalyticsHtml

SpecHtmlPosts == InitHtmlPosts /\ [][NextHtmlPosts]_vars

InitSeries ==
  /\ pc = "call" /\ fn = "compute_and_return"
  /\ arg \in [num_posts : PostCounts, likes : Series, comments : SideSeries,
              views : {<<7>>}]
  /\ ret = <<>>

CallComputeAndReturn ==
  /\ pc = "call" /\ fn = "compute_and_return"
  /\ \E rounding \in [SeriesKeys -> BOOLEAN] :
       ret' = compute_and_return(arg.num_posts, arg.likes, arg.comments, arg.views,
                                 rounding)
  /\ pc' = "return"
  /\ UNCHANGED <<fn, arg>>

NextSeries == CallComputeAndReturn

SpecSeries == InitSeries /\ [][NextSeries]_vars

InitTrend ==
  /\ pc = "call" /\ fn = "trend_and_plot"
  /\ arg \in TrendSeries /\ ret = <<>>

CallTrendAndPlot ==
  /\ pc = "call" /\ fn = "trend_and_plot"
  /\ ret' = trend_and_plot(arg)
  /\ pc' = "return"
  /\ UNCHANGED <<fn, arg>>

NextTrend == CallTrendAndPlot

SpecTrend == InitTrend /\ [][NextTrend]_vars

InitHashtags ==
  /\ pc = "call" /\ fn = "extract_hashtags_from_html"
  /\ arg \in HashTexts /\ ret = <<>>

CallExtractHashtagsFromHtml ==
  /\ pc = "call" /\ fn = "extract_hashtags_from_html"
  /\ ret' = extract_hashtags_from_html(arg)
  /\ pc' = "return"
  /\ UNCHANGED <<fn, arg>>

NextHashtags == CallExtractHashtagsFromHtml

SpecHashtags == InitHashtags /\ [][NextHashtags]_vars

InitMain ==
  /\ pc = "prompt_user_input" /\ fn = "main"
  /\ arg \in Browsers /\ ret = Started

\* line 555
PromptUserInput ==
  /\ fn = "main" /\ pc = "prompt_user_input"
  /\ pc' = "build_driver"
  /\ UNCHANGED <<fn, arg, ret>>

\* line 556, before the try block
BuildDriver ==
  /\ fn = "main" /\ pc = "build_driver"
  /\ \/ pc' = "login_linkedin" /\ ret' = ret
     \/ pc' = "done" /\ ret' = Raised(ret)
  /\ UNCHANGED <<fn, arg>>

\* line 558
LoginLinkedin ==
  /\ fn = "main" /\ pc = "login_linkedin"
  /\ \/ pc' = "open_creator_analytics_content" /\ ret' = ret
     \/ pc' = "quit" /\ ret' = Raised(ret)
  /\ UNCHANGED <<fn, arg>>

\* line 559
OpenCreatorAnalyticsContent ==
  /\ fn = "main" /\ pc = "open_creator_analytics_content"
  /\ \/ pc' = "scroll_for_posts" /\ ret' = ret
     \/ pc' = "quit" /\ ret' = Raised(ret)
  /\ UNCHANGED <<fn, arg>>

\* line 561
ScrollForPosts ==
  /\ fn = "main" /\ pc = "scroll_for_posts"
  /\ \/ pc' = "wait_for_analytics_ready" /\ ret' = ret
     \/ pc' = "quit" /\ ret' = Raised(ret)
  /\ UNCHANGED <<fn, arg>>

\* line 563: returns when the page is ready and when the time is over
WaitForAnalyticsReady ==
  /\ fn = "main" /\ pc = "wait_for_analytics_ready"
  /\ pc' = "capture"
  /\ UNCHANGED <<fn, arg, ret>>

\* lines 565-583: the main document, then the list of the iframes
CaptureMain ==
  /\ fn = "main" /\ pc = "capture"
  /\ \/ /\ pc' = "frames"
        /\ ret' = [ret EXCEPT !.parts = <<MainPart(arg.page)>>]
     \/ pc' = "quit" /\ ret' = Raised(ret)
  /\ UNCHANGED <<fn, arg>>

\* lines 584-594: one turn of the loop over the iframes
CaptureFrame ==
  /\ fn = "main" /\ pc = "frames" /\ ret.frame < Len(arg.frames)
  /\ ret' = [ret EXCEPT
               !.frame = @ + 1,
               !.parts = IF arg.frames[ret.frame + 1] = None THEN @
                         ELSE Append(@, FramePart(ret.frame,
                                                  arg.frames[ret.frame + 1][1]))]
  /\ UNCHANGED <<pc, fn, arg>>

\* lines 596-601: combined_html, written to analytics_page.html if it can be
SavePage ==
  /\ fn = "main" /\ pc = "frames" /\ ret.frame = Len(arg.frames)
  /\ ret' = [ret EXCEPT !.files = IF arg.writable THEN @ \cup {"analytics_page.html"}
                                  ELSE @]
  /\ pc' = "print"
  /\ UNCHANGED <<fn, arg>>

\* lines 602-607: combined_html is printed and main returns
PrintPage ==
  /\ fn = "main" /\ pc = "print"
  /\ ret' = [ret EXCEPT !.printed = ret.parts]
  /\ pc' = "quit"
  /\ UNCHANGED <<fn, arg>>

\* lines 700-701: finally
Quit ==
  /\ fn = "main" /\ pc = "quit"
  /\ ret' = [ret EXCEPT !.quit = TRUE]
  /\ pc' = "done"
  /\ UNCHANGED <<fn, arg>>

NextMain ==
  \/ PromptUserInput \/ BuildDriver \/ LoginLinkedin \/ OpenCreatorAnalyticsContent
  \/ ScrollForPosts \/ WaitForAnalyticsReady \/ CaptureMain \/ CaptureFrame
  \/ SavePage \/ PrintPage \/ Quit

SpecMain == InitMain /\ [][NextMain]_vars

Init ==
  \/ InitNumber \/ InitExtract \/ InitMetrics \/ InitPosts \/ InitHtmlPosts
  \/ InitSeries \/ InitTrend \/ InitHashtags \/ InitMain

Next ==
  \/ NextNumber \/ NextExtract \/ NextMetrics \/ NextPosts \/ NextHtmlPosts
  \/ NextSeries \/ NextTrend \/ NextHashtags \/ NextMain

Spec == Init /\ [][Next]_vars

(***************************************************************************)
(* Properties                                                              *)
(***************************************************************************)
Returned(f) == pc = "return" /\ fn = f

\* the values of a sequence
Range(s) == {s[i] : i \in 1..Len(s)}

\* the lines of the page that match the label and whose window has a candidate
Productive(label, lines) ==
  {i \in 1..Len(lines) : /\ Search(label_patterns[label], lines[i])
                         /\ candidates_from_window(WindowAt(lines, i)) # <<>>}

\* C1: for a count-style label the value stored is the largest of the
\* candidates of the window of three lines from which it was taken; the
\* window <<"Impressions", "358", "42">> gives 358 and the page
\* <<"Rendimento dei contenuti", "Impressioni 1.2k", "+15%">> gives exactly
\* {Impressions: 1200}.
C1_CountLabelTakesMax ==
  Returned("parse_analytics_metrics") =>
    LET lines == NonBlank(arg)
    IN  /\ \A label \in CountLabels \cap DOMAIN ret :
             /\ Productive(label, lines) # {}
             /\ LET c == candidates_from_window(
                           WindowAt(lines, Least(Productive(label, lines))))
                IN  /\ ret[label] \in Range(c)
                    /\ \A x \in Range(c) : ~NumLess(ret[label], x)
        /\ arg = <<Impressions, <<"3", "5", "8">>, <<"4", "2">> >>
             => ret = ("Impressions" :> NumOf(358))
        /\ arg = <<ContentPerformance, ImpressioniCompact, <<"+", "1", "5", "%">> >>
             => ret = ("Impressions" :> NumOf(1200))

\* a count-style label whose largest candidate is not the first of its window
C1_Witness ==
  /\ Returned("parse_analytics_metrics")
  /\ arg = <<Impressions, <<"4", "2">>, <<"3", "5", "8">> >>
  /\ ret = ("Impressions" :> NumOf(358))

\* the window of the value of Follows holds both lines of the example
FollowsWindowHasBoth(lines) ==
  /\ Productive("Follows", lines) # {}
  /\ LET w == WindowAt(lines, Least(Productive("Follows", lines)))
     IN  \/ {FollowsSeven, ImpressionsFiftyThousand} \subseteq Range(w)
         \/ BothOnOneLine \in Range(w)

\* C2, as claimed: when the Follows window holds the candidate 7 of
\* "Follows: 7" and the candidate 50000 of "Impressions: 50000", Follows is 7,
\* also when 50000 comes first.
C2_FollowsIsSeven ==
  Returned("parse_analytics_metrics") /\ FollowsWindowHasBoth(NonBlank(arg))
    => "Follows" \in DOMAIN ret /\ ret["Follows"] = NumOf(7)

\* C2, amended: Follows is the first candidate of its window, in window order,
\* that is a whole number of at most 100000, and the first candidate when there
\* is none: 7 when 7 comes before 50000, and 50000 when 50000 comes before 7.
C2_FollowsIsFirstSmallInteger ==
  Returned("parse_analytics_metrics") /\ Productive("Follows", NonBlank(arg)) # {} =>
    LET lines == NonBlank(arg)
        c     == candidates_from_window(WindowAt(lines, Least(Productive("Follows", lines))))
        small == {i \in 1..Len(c) : IsInteger(c[i]) /\ ~NumLess(SmallInt, c[i])}
    IN  /\ "Follows" \in DOMAIN ret
        /\ ret["Follows"] = IF small = {} THEN c[1] ELSE c[Least(small)]
        /\ c = <<NumOf(7), NumOf(50000)>> => ret["Follows"] = NumOf(7)
        /\ c = <<NumOf(50000), NumOf(7)>> => ret["Follows"] = NumOf(50000)

\* 50000 comes before 7 in the window and is taken, and a figure above 100000
\* that comes before 7 is passed over
C2_Witness ==
  /\ Returned("parse_analytics_metrics")
  /\ \/ /\ arg = <<OnlyFollows, ImpressionsFiftyThousand, FollowsSeven>>
        /\ ret["Follows"] = NumOf(50000)
     \/ /\ arg = <<OnlyFollows, ImpressionsHalfMillion, FollowsSeven>>
        /\ ret["Follows"] = NumOf(7)

\* C3, as claimed: the window is taken at the first line that matches the
\* label, and the label is omitted when that window has no candidate.
C3_FirstMatchOrOmitted ==
  Returned("parse_analytics_metrics") =>
    LET lines == NonBlank(arg)
    IN  \A i \in 1..Len(Labels) :
          LET at == {j \in 1..Len(lines) : Search(label_patterns[Labels[i]], lines[j])}
          IN  at # {} /\ candidates_from_window(WindowAt(lines, Least(at))) = <<>>
                => Labels[i] \notin DOMAIN ret

\* C3, amended: the window is taken at the first line that matches the label
\* and whose window has a candidate; the label is omitted exactly when no
\* matching line has such a window; the mapping holds one value per label.
C3_FirstProductiveMatch ==
  Returned("parse_analytics_metrics") =>
    LET lines == NonBlank(arg)
    IN  /\ DOMAIN ret \subseteq Range(Labels)
        /\ \A i \in 1..Len(Labels) :
             LET good == Productive(Labels[i], lines)
             IN  /\ Labels[i] \in DOMAIN ret <=> good # {}
                 /\ good # {} =>
                      ret[Labels[i]] \in
                        Range(candidates_from_window(WindowAt(lines, Least(good))))

\* the first matching line has a window without candidates, a later one has one
C3_Witness ==
  /\ Returned("parse_analytics_metrics")
  /\ arg = <<Impressions, <<"+", "1", "5", "%">>, <<"+", "1", "5", "%">>,
             ImpressionsFiftyThousand>>
  /\ ret = ("Impressions" :> NumOf(50000))

\* the token as _to_number sees it before it drops the commas
CommaToken(value_str) ==
  LET s == Remove(Lower(Strip(value_str)), {NNBSP, " "})
  IN  IF Len(s) > 0 /\ s[Len(s)] \in {"k", "m", "b"} THEN SubSeq(s, 1, Len(s) - 1) ELSE s

\* C4: a token with exactly one comma and no period is read with the comma as
\* its decimal point, so that "3,5" is 3.5; in every other case the commas are
\* dropped.
C4_CommaIsDecimalPoint ==
  Returned("_to_number") =>
    /\ arg = <<"3", ",", "5">> => ret = MkNum(FALSE, <<3, 5>>, -1)
    /\ IF Count(CommaToken(arg), ",") = 1 /\ Count(CommaToken(arg), ".") = 0
       THEN ret = _to_number(Replace(arg, ",", "."))
       ELSE ret = _to_number(Remove(arg, {","}))

RECURSIVE WindowTokens(_)
WindowTokens(window) ==
  IF window = <<>> THEN <<>>
  ELSE SignedTokens(Head(window), 1) \o WindowTokens(Tail(window))

TokenCount(window, Test(_)) ==
  Len(SelectSeq(WindowTokens(window), LAMBDA t : ~Test(t)))

EndsInPercent(tok) == EndsWith(tok, "%")

\* a percent sign that follows the digits, not a K/M/B suffix
EndsInPlainPercent(tok) ==
  EndsWith(tok, "%") /\ Len(tok) >= 2 /\ tok[Len(tok) - 1] \notin SuffixChars

LongBare(tok) ==
  /\ Cardinality({i \in 1..Len(tok) : tok[i] \in Digits}) > MaxDigits
  /\ \A i \in 1..Len(tok) : tok[i] \notin SuffixChars

\* C7, as claimed: neither extract_numbers_only nor candidates_from_window
\* returns a value of a token of more than 9 digits without suffix.
C7_NoLongTokenInEitherMode ==
  /\ Returned("candidates_from_window") => Len(ret) <= TokenCount(arg, LongBare)
  /\ Returned("extract_numbers_only") => Len(ret) <= TokenCount(<<arg>>, LongBare)

\* C7, amended: candidates_from_window returns no value of a token of more
\* than 9 digits without suffix; extract_numbers_only has no such filter and
\* returns one value for every token.
C7_NoLongTokenInWindowMode ==
  /\ Returned("candidates_from_window") => Len(ret) <= TokenCount(arg, LongBare)
  /\ Returned("extract_numbers_only") => Len(ret) = Len(SignedTokens(arg, 1))

\* a token of ten digits and a value below the cap of one billion is dropped
C7_Witness ==
  /\ Returned("candidates_from_window")
  /\ arg = << <<"1", "2", "3", "4", "5", ".", "1", "2", "3", "4", "5">> >>
  /\ ret = <<>>

\* the k-th element of a set of positions, in increasing order
Nth(S, k) == CHOOSE i \in S : Cardinality({j \in S : j <= i}) = k

\* the number of an optional typed value
ValueOf(field) == IF field = None THEN None ELSE Some(field[1].value)

\* the impressions number of a line of a post
ImpressionsToken(w) == IF NumberSearch(w, 1) = <<>> THEN <<>> ELSE Group(w, NumberSearch(w, 1))

\* the likes or comments number of a line of a post
CountToken(w) == IF BoundedSearch(w) = <<>> THEN <<>> ELSE Group(w, BoundedSearch(w))

\* the number of the first of the 12 lines from line i on that carries the
\* label and a number
FirstLabelled(lines, i, pattern, Token(_)) ==
  LET hits == {j \in i..(i + PostWindow - 1) :
                 j <= Len(lines) /\ Search(pattern, lines[j]) /\ Token(lines[j]) # <<>>}
  IN  IF hits = {} THEN None ELSE Some(_to_number(Token(lines[Least(hits)])))

Candidate(blk) ==
  /\ blk.title # None /\ blk.label # None
  /\ Search(PostImpressionsPattern, blk.label[1])
  /\ NumberSearch(blk.title[1], 1) # <<>>

TitleValue(blk) == _to_number(Group(blk.title[1], NumberSearch(blk.title[1], 1)))

\* C9, as claimed: one record, in document order, for every block with both
\* elements, an impressions label and a title number of at most 1,000,000,000.
C9_RecordUpToOneBillion ==
  Returned("parse_posts_from_analytics_html") =>
    LET kept == {i \in 1..Len(arg) :
                   Candidate(arg[i]) /\ ~NumLess(Billion, TitleValue(arg[i]))}
    IN  /\ Len(ret) = Cardinality(kept)
        /\ \A k \in 1..Len(ret) : ret[k].impressions.value = TitleValue(arg[Nth(kept, k)])

\* C9, amended: one record, in document order, for every block with both
\* elements, an impressions label and a title number that is not zero and is
\* below 1,000,000,000; every other block is skipped and the scan goes on.
C9_RecordBelowOneBillion ==
  Returned("parse_posts_from_analytics_html") =>
    LET kept == {i \in 1..Len(arg) :
                   /\ Candidate(arg[i])
                   /\ TitleValue(arg[i]) # Zero
                   /\ NumLess(TitleValue(arg[i]), Billion)}
    IN  /\ Len(ret) = Cardinality(kept)
        /\ \A k \in 1..Len(ret) : ret[k].impressions.value = TitleValue(arg[Nth(kept, k)])

\* a block without title is skipped and the block after it gives its record
C9_Witness ==
  /\ Returned("parse_posts_from_analytics_html")
  /\ Len(arg) = 2
  /\ arg[1].title = None
  /\ arg[2].title = Some(<<"3", "5", "8">>)
  /\ ret = <<[impressions |-> [type |-> "int", value |-> NumOf(358)]]>>

\* the series that compute_and_return cleans
Truncated(key) == Slice(Reversed(arg[key]), arg.num_posts)

\* the sample lies more than 3 standard deviations from the median
Beyond(s, i) == Len(s) >= 2 /\ Distance(s, s[i]) > Band(s)

\* the sample lies at exactly 3 standard deviations, the series not constant
AtEdge(s, i) == Len(s) >= 2 /\ Distance(s, s[i]) = Band(s) /\ Band(s) # 0

\* C10, as claimed: a series of two samples or more comes back shorter by
\* the number of its samples that lie more than 3 standard deviations from
\* its median.
C10_OutliersDropped ==
  Returned("compute_and_return") =>
    \A key \in SeriesKeys :
      LET s == Truncated(key)
      IN  Len(s) >= 2 =>
            Len(ret[key]) = Len(s) - Cardinality({i \in 1..Len(s) : Beyond(s, i)})

\* C10, amended: a series of two samples or more comes back with the length
\* it had: every sample more than 3 standard deviations from the median is
\* replaced by the median of the samples that were retained, its fraction
\* cut off, and every sample less than 3 standard deviations from the median
\* is returned as it was; a series of fewer than two samples comes back
\* empty.
C10_OutliersReplacedByMedian ==
  Returned("compute_and_return") =>
    \A key \in SeriesKeys :
      LET s == Truncated(key)
      IN  IF Len(s) < 2 THEN ret[key] = <<>>
          ELSE /\ Len(ret[key]) = Len(s)
               /\ \E edge \in BOOLEAN :
                    LET gone == {i \in 1..Len(s) :
                                   Beyond(s, i) \/ (edge /\ AtEdge(s, i))}
                        kept == SelectSeq(s, LAMBDA x :
                                  \E i \in 1..Len(s) : i \notin gone /\ s[i] = x)
                    IN  \A i \in 1..Len(s) :
                          ret[key][i] = IF i \in gone THEN TwiceMedian(kept) \div 2
                                        ELSE s[i]

\* a series with a sample beyond the band that comes back as long as it was,
\* the sample replaced
C10_Witness ==
  /\ Returned("compute_and_return")
  /\ \E i \in 1..Len(Truncated("likes")) :
       /\ Beyond(Truncated("likes"), i)
       /\ Len(ret.likes) = Len(Truncated("likes"))
       /\ ret.likes[i] # Truncated("likes")[i]

\* the series of the example, newest first, with a post count of 5 or more
ThousandCall ==
  /\ Returned("compute_and_return")
  /\ arg.likes = <<10, 12, 11, 1000, 9>>
  /\ arg.num_posts >= 5

\* C11, as claimed: for the series [10, 12, 11, 1000, 9] and a post count of
\* at least 5 the cleaned series has at most 5 values and 1000 is not one of
\* them.
C11_ThousandRemoved ==
  ThousandCall => Len(ret.likes) <= 5 /\ 1000 \notin Range(ret.likes)

\* C11, amended: for the series [10, 12, 11, 1000, 9] and a post count of at
\* least 5 the cleaned series is the whole series, oldest first, the value
\* 1000 included: 1000 lies 989 from the median 11, less than 3 standard
\* deviations (3 * 442.5).
C11_ThousandRetained ==
  ThousandCall => ret.likes = <<9, 1000, 11, 12, 10>>

\* the call of the example has returned, and 1000 lies inside the band
C11_Witness ==
  /\ ThousandCall
  /\ ~Beyond(Truncated("likes"), 2)
  /\ Truncated("likes")[2] = 1000
  /\ 1000 \in Range(ret.likes)

\* C12, as claimed: the entry of each series in the result of
\* compute_and_return is a trend result, with the three components series,
\* slope and nrmse, and a fourth, trend, when the fit succeeded.
C12_ResultCarriesTrend ==
  Returned("compute_and_return") =>
    \A key \in SeriesKeys : Cardinality(DOMAIN ret[key]) \in {3, 4}

\* C13: when fewer than 2 valid points remain, or all valid points are
\* identical, trend_and_plot reports no slope and no normalized error,
\* returns the valid points as they are and in order, and returns no trend.
C13_NoFitWithoutTwoDistinctPoints ==
  Returned("trend_and_plot") =>
    LET valid == SelectSeq(arg, LAMBDA x : x # None)
        flat  == [i \in 1..Len(valid) |-> valid[i][1]]
    IN  (Len(flat) < 2 \/ \A i, j \in 1..Len(flat) : flat[i] = flat[j]) =>
          /\ DOMAIN ret = {"slope", "nrmse", "series"}
          /\ ret.slope = None
          /\ ret.nrmse = None
          /\ ret.series = flat

\* the constant series [5, 5, 5] comes back as it is, without fit
C13_Witness ==
  /\ Returned("trend_and_plot")
  /\ arg = <<Some(5), Some(5), Some(5)>>
  /\ ret = [slope |-> None, nrmse |-> None, series |-> <<5, 5, 5>>]

RECURSIVE JoinTags(_)
\* " ".join(tags)
JoinTags(tags) ==
  IF tags = <<>> THEN <<>>
  ELSE IF Len(tags) = 1 THEN tags[1]
  ELSE tags[1] \o <<" ">> \o JoinTags(Tail(tags))

\* the result is lower-cased and without duplicates, and holds the tags of
\* the text in the order in which each occurs first
LowerCasedInFirstOccurrenceOrder ==
  LET tags == FindTags(arg, 1)
      First(k) == CHOOSE i \in 1..Len(tags) :
                    /\ LowerTag(tags[i]) = k
                    /\ \A j \in 1..(i - 1) : LowerTag(tags[j]) # k
  IN  /\ \A i \in 1..Len(ret) : \A j \in 1..Len(ret[i]) :
           ret[i][j] \notin Uppers \cup {DOTTED_I}
      /\ \A i, j \in 1..Len(ret) : i # j => ret[i] # ret[j]
      /\ Range(ret) = {LowerTag(tags[i]) : i \in 1..Len(tags)}
      /\ \A i, j \in 1..Len(ret) : i < j => First(ret[i]) < First(ret[j])

\* C14, as claimed: the output of extract_hashtags_from_html is lower-cased,
\* without duplicates and in first-occurrence order, and the extractor run
\* on the output joined into text returns the output.
C14_Idempotent ==
  Returned("extract_hashtags_from_html") =>
    /\ LowerCasedInFirstOccurrenceOrder
    /\ extract_hashtags_from_html(JoinTags(ret)) = ret

\* C14, amended: the output is lower-cased, without duplicates and in
\* first-occurrence order, and the extractor run on the output joined into
\* text returns the output when no tag of the text holds U+0130, whose lower
\* case ends with a combining dot that cuts the tag short on the second run.
C14_IdempotentWithoutDottedI ==
  Returned("extract_hashtags_from_html") =>
    /\ LowerCasedInFirstOccurrenceOrder
    /\ (\A i \in 1..Len(ret) : DOT_ABOVE \notin Range(ret[i])) =>
         extract_hashtags_from_html(JoinTags(ret)) = ret

\* a text with a repeated tag in two cases gives two tags, and these again
C14_Witness ==
  /\ Returned("extract_hashtags_from_html")
  /\ arg = <<"#", "A", " ", "#", "b", "_", "1", "#", "a">>
  /\ ret = <<(<<"#", "a">>), (<<"#", "b", "_", "1">>)>>
  /\ extract_hashtags_from_html(JoinTags(ret)) = ret

\* main has ended after login, navigation, scrolling and capture succeeded
EndedAfterCapture ==
  fn = "main" /\ pc = "done" /\ ~ret.raised /\ ret.parts # <<>>

\* C15, as claimed: when main ends after login, navigation, scrolling and
\* page capture succeeded, the captured document has been passed to
\* parse_analytics_metrics and to a per-post parser, and the metrics have
\* been written to CSV.
C15_ParsedAndWrittenToCsv ==
  EndedAfterCapture =>
    /\ "parse_analytics_metrics" \in ret.parsed
    /\ ret.parsed \cap {"parse_posts_from_analytics_html", "parse_posts_blocks"} # {}
    /\ ret.csv # {}

\* a count, whitespace, and a word that begins with m
CountBeforeWord == {<<TwelveMembers, 12>>, <<ThreeMonthsAgo, 3>>}

\* C16, as claimed: a count followed by whitespace and an ordinary word that
\* begins with k, m or b ("12 members", "3 months ago") is extracted at its
\* face value by candidates_from_window and by extract_numbers_only.
C16_WordIsNoSuffix ==
  \A c \in CountBeforeWord :
    /\ Returned("candidates_from_window") /\ arg = <<c[1]>> => ret = <<NumOf(c[2])>>
    /\ Returned("extract_numbers_only") /\ arg = c[1] => ret = <<NumOf(c[2])>>
====
